---- MODULE Spec2Model ----
(***************************************************************************)
(* Strategy simulation and optimisation engine (src/strategy_engine.py)    *)
(* over the tables written by the offline preparation (src/data_prep.py).  *)
(*                                                                         *)
(* Numbers: the engine computes in binary floating point.  Here every      *)
(* time, base, slope and factor is an exact rational <<n, d>> in lowest    *)
(* terms with d > 0, so sums, means and products are the mathematical      *)
(* ones; rounding error of the float operations is not represented.        *)
(***************************************************************************)
EXTENDS Integers, Sequences, FiniteSets, TLC

VARIABLES
    deg_models,   \* strategy_engine.deg_models: track -> team -> compound -> entry
    loaded,       \* the table exactly as joblib.load returned it (never written)
    pc,           \* "idle": no call in progress; "returned": a call has returned
    call,         \* the arguments of the last call
    result,       \* what the last call returned or raised
    menu_laps,    \* menu construction alone: the lap count given, 0 before any
    menu,         \* menu construction alone: the candidates built for menu_laps
    validated,    \* menu construction alone: the candidates line 65 has summed
    rejected,     \* menu construction alone: those of them line 66 has rejected
    OW_API_KEY,   \* strategy_engine.OW_API_KEY, read from the environment at import
    explain_def   \* which definition of explain_strategy the import left in place

vars == <<deg_models, loaded, pc, call, result, menu_laps, menu, validated, rejected,
          OW_API_KEY, explain_def>>

----------------------------------------------------------------------------
(* Exact rational arithmetic.                                              *)

RECURSIVE GCD(_, _)
GCD(a, b) == IF b = 0 THEN a ELSE GCD(b, a % b)

Abs(x) == IF x < 0 THEN -x ELSE x

LCM(a, b) == (a \div GCD(a, b)) * b

Rat(n, d) ==
    LET g == GCD(Abs(n), d)
    IN  <<n \div g, d \div g>>

R(n) == <<n, 1>>

\* the sum over the common denominator, not reduced
RPlus(a, b) ==
    IF a[2] = b[2] THEN <<a[1] + b[1], a[2]>>
    ELSE LET m == LCM(a[2], b[2])
         IN  <<a[1] * (m \div a[2]) + b[1] * (m \div b[2]), m>>

Norm(a) == Rat(a[1], a[2])

\* a + k * b over the common denominator, not reduced
RAffine(a, k, b) ==
    LET m == LCM(a[2], b[2])
    IN  <<a[1] * (m \div a[2]) + k * b[1] * (m \div b[2]), m>>

RAdd(a, b) == Norm(RPlus(a, b))

RMul(a, b) ==
    LET g1 == GCD(Abs(a[1]), b[2])
        g2 == GCD(Abs(b[1]), a[2])
    IN  <<(a[1] \div g1) * (b[1] \div g2), (a[2] \div g2) * (b[2] \div g1)>>

RDivInt(a, k) == RMul(a, <<1, k>>)

RLess(a, b) ==
    LET m == LCM(a[2], b[2])
    IN  a[1] * (m \div a[2]) < b[1] * (m \div b[2])

RLeq(a, b) == ~RLess(b, a)

RMax(a, b) == IF RLess(a, b) THEN b ELSE a

\* s[lo] + ... + s[hi], halving the range (addition of rationals is
\* associative, so the grouping does not change the sum)
RECURSIVE RSumRange(_, _, _)
RSumRange(s, lo, hi) ==
    IF lo > hi THEN R(0)
    ELSE IF lo = hi THEN s[lo]
    ELSE LET mid == (lo + hi) \div 2
         IN  RPlus(RSumRange(s, lo, mid), RSumRange(s, mid + 1, hi))

\* sum() of a list
RSum(s) == Norm(RSumRange(s, 1, Len(s)))

----------------------------------------------------------------------------
(* The loaded tables.                                                      *)

\* models/pit_time.pkl, written by prepare_data as pit_time_avg
pit_time == 22

\* models/track_laps.pkl = TRACK_LAPS, restricted to three of its circuits
track_laps_dict == [t \in {"Belgium", "Silverstone", "Monza"} |->
                      CASE t = "Belgium" -> 44
                        [] t = "Silverstone" -> 52
                        [] t = "Monza" -> 53]

\* the compounds prepare_data fits (COMPOUNDS[:-1]) and simulate_strategy averages
DRY == <<"SOFT", "MEDIUM", "HARD">>

DryCompounds == {DRY[i] : i \in 1..Len(DRY)}

Entry(b, s) == [base |-> b, slope |-> s]

----------------------------------------------------------------------------
(* simulate_strategy                                                       *)

RECURSIVE SumLaps(_, _)
SumLaps(strategy, k) == IF k = 0 THEN 0 ELSE SumLaps(strategy, k - 1) + strategy[k][2]

\* all_bases[comp] / all_slopes[comp]: one value per key that has the compound
RECURSIVE SumOver(_, _)
SumOver(f, keys) ==
    IF keys = {} THEN R(0)
    ELSE LET k == CHOOSE x \in keys : TRUE
         IN  RAdd(SumOver(f, keys \ {k}), f[k])

\* numpy.mean of a non-empty list
Mean(f) == RDivInt(SumOver(f, DOMAIN f), Cardinality(DOMAIN f))

\* lines 76-85 averaging per track first: the mean over the tracks of the
\* mean over each track's teams
TrackFallbackOfTrackMeans(dm) ==
    LET teams(t, comp) == {tm \in DOMAIN dm[t] : comp \in DOMAIN dm[t][tm]}
        tracks(comp) == {t \in DOMAIN dm : teams(t, comp) # {}}
        mean(t, comp, field) == Mean([tm \in teams(t, comp) |-> dm[t][tm][comp][field]])
    IN  [comp \in {c \in DryCompounds : tracks(c) # {}} |->
            Entry(Mean([t \in tracks(comp) |-> mean(t, comp, "base")]),
                  Mean([t \in tracks(comp) |-> mean(t, comp, "slope")]))]

\* lines 76-85: per-compound means over every (track, team) of the table
TrackFallback(dm) ==
    LET pairs == UNION {{<<t, tm>> : tm \in DOMAIN dm[t]} : t \in DOMAIN dm}
        keys(comp) == {p \in pairs : comp \in DOMAIN dm[p[1]][p[2]]}
    IN  [comp \in {c \in DryCompounds : keys(c) # {}} |->
            Entry(Mean([p \in keys(comp) |-> dm[p[1]][p[2]][comp].base]),
                  Mean([p \in keys(comp) |-> dm[p[1]][p[2]][comp].slope]))]

\* lines 93-101 with every sum divided by the number of teams of the track,
\* not by the number of teams that have the compound
TeamFallbackOverAllTeams(track_data) ==
    LET keys(comp) == {tm \in DOMAIN track_data : comp \in DOMAIN track_data[tm]}
    IN  [comp \in {c \in DryCompounds : keys(c) # {}} |->
            Entry(RDivInt(SumOver([tm \in keys(comp) |-> track_data[tm][comp].base],
                                  keys(comp)), Cardinality(DOMAIN track_data)),
                  RDivInt(SumOver([tm \in keys(comp) |-> track_data[tm][comp].slope],
                                  keys(comp)), Cardinality(DOMAIN track_data)))]

\* lines 93-101: per-compound means over the teams of track_data
TeamFallback(track_data) ==
    LET keys(comp) == {tm \in DOMAIN track_data : comp \in DOMAIN track_data[tm]}
    IN  [comp \in {c \in DryCompounds : keys(c) # {}} |->
            Entry(Mean([tm \in keys(comp) |-> track_data[tm][comp].base]),
                  Mean([tm \in keys(comp) |-> track_data[tm][comp].slope]))]

\* lines 113-119 without the constants of lines 115-116: INTERMEDIATE looked
\* up through the HARD entry alone
StintParamsNoUltimateFallback(team_data, comp) ==
    IF comp = "INTERMEDIATE"
    THEN IF "HARD" \in DOMAIN team_data
         THEN [ok |-> TRUE,
               base |-> RAdd(team_data["HARD"].base, R(3)),
               slope |-> RMul(team_data["HARD"].slope, <<3, 2>>)]
         ELSE [ok |-> FALSE, base |-> R(0), slope |-> R(0)]
    ELSE IF comp \in DOMAIN team_data
         THEN [ok |-> TRUE, base |-> team_data[comp].base, slope |-> team_data[comp].slope]
         ELSE [ok |-> FALSE, base |-> R(0), slope |-> R(0)]

\* lines 113-119: the (base, slope) of a stint, or the KeyError of line 118
StintParams(team_data, comp) ==
    IF comp = "INTERMEDIATE"
    THEN IF "HARD" \in DOMAIN team_data
         THEN [ok |-> TRUE,
               base |-> RAdd(team_data["HARD"].base, R(3)),
               slope |-> RMul(team_data["HARD"].slope, <<3, 2>>)]
         ELSE [ok |-> TRUE, base |-> R(95), slope |-> <<3, 100>>]
    ELSE IF comp \in DOMAIN team_data
         THEN [ok |-> TRUE, base |-> team_data[comp].base, slope |-> team_data[comp].slope]
         ELSE [ok |-> FALSE, base |-> R(0), slope |-> R(0)]

\* lines 128-131: append the running total after every lap of the stint
\* the running totals after laps lo..hi of the stint, from total cur before lap lo
RECURSIVE RunningTotals(_, _, _, _)
RunningTotals(cur, times, lo, hi) ==
    IF lo > hi THEN <<>>
    ELSE IF lo = hi THEN <<RPlus(cur, times[lo])>>
    ELSE LET mid == (lo + hi) \div 2
             left == RunningTotals(cur, times, lo, mid)
         IN  left \o RunningTotals(left[Len(left)], times, mid + 1, hi)

\* the running totals reduced and appended to cum_times, and the last of them
Appended(cum, cur, added) ==
    <<cum \o [k \in 1..Len(added) |-> Norm(added[k])],
      IF added = <<>> THEN cur ELSE Norm(added[Len(added)])>>

CumAppend(cum, cur, times) == Appended(cum, cur, RunningTotals(cur, times, 1, Len(times)))

\* lines 138-141 without the test of prev_comp: a pit stop charged after
\* every stint, the first included
AddPitEveryStint(x, first) == RAdd(x, R(pit_time))

\* lines 138-141: the pit stop charged after every stint but the first
AddPit(x, first) == IF first THEN x ELSE RAdd(x, R(pit_time))

\* lines 103-107: the accumulators before the first stint
LoopInit == [err |-> "none", total_time |-> R(0), stint_times |-> <<>>,
             deg_penalties |-> <<>>, avg_lap_times |-> <<>>,
             cum_times |-> <<R(0)>>, current_cum |-> R(0), current_lap |-> 0]

\* lines 110-111 without the substitution: the stint keeps the plan's compound
EffectiveCompKept(orig_comp, is_wet) == orig_comp

\* lines 110-111: the compound simulated for a stint of the plan
EffectiveComp(orig_comp, is_wet) ==
    IF is_wet /\ orig_comp # "INTERMEDIATE" THEN "INTERMEDIATE" ELSE orig_comp

\* line 122: the lap times of a stint
LapTimes(base, adjusted_slope, stint_laps) ==
    [j \in 1..stint_laps |-> RAffine(base, j - 1, adjusted_slope)]

\* line 124: the wear of a stint at the unadjusted slope
DegPenalty(slope, stint_laps) ==
    RSum([j \in 1..stint_laps |-> <<(j - 1) * slope[1], slope[2]>>])

\* lines 138-141 without line 141: the pit stop charged to total_time and
\* current_cum, and not to the last entry of cum_times
StintRecordPitNotFolded(acc, stint_time, deg_penalty, built, stint_laps, first) ==
    [err |-> "none",
     total_time |-> AddPit(RAdd(acc.total_time, stint_time), first),
     stint_times |-> Append(acc.stint_times, stint_time),
     deg_penalties |-> Append(acc.deg_penalties, deg_penalty),
     avg_lap_times |-> Append(acc.avg_lap_times, RDivInt(stint_time, stint_laps)),
     cum_times |-> built[1],
     current_cum |-> AddPit(built[2], first),
     current_lap |-> acc.current_lap + stint_laps]

\* lines 125-142: the accumulators after a stint of the given lap times;
\* built is CumAppend's pair of the extended cum_times and the running total
StintRecord(acc, stint_time, deg_penalty, built, stint_laps, first) ==
    [err |-> "none",
     total_time |-> AddPit(RAdd(acc.total_time, stint_time), first),
     stint_times |-> Append(acc.stint_times, stint_time),
     deg_penalties |-> Append(acc.deg_penalties, deg_penalty),
     avg_lap_times |-> Append(acc.avg_lap_times, RDivInt(stint_time, stint_laps)),
     cum_times |-> [built[1] EXCEPT ![Len(built[1])] = AddPit(@, first)],
     current_cum |-> AddPit(built[2], first),
     current_lap |-> acc.current_lap + stint_laps]

\* lines 121-131 with current_cum reset at the top of the loop body
StintTimesFromZero(acc, stint_times, deg_penalty, stint_laps, first) ==
    StintRecord(acc, RSum(stint_times), deg_penalty,
                CumAppend(acc.cum_times, R(0), stint_times),
                stint_laps, first)

\* lines 121-131: the stint's lap times summed and accumulated
StintTimes(acc, stint_times, deg_penalty, stint_laps, first) ==
    StintRecord(acc, RSum(stint_times), deg_penalty,
                CumAppend(acc.cum_times, acc.current_cum, stint_times),
                stint_laps, first)

\* lines 113-125 with the penalty of line 124 computed from adjusted_slope
StintWithAdjustedPenalty(acc, p, stint_laps, first, temp_factor) ==
    IF ~p.ok THEN [acc EXCEPT !.err = "KeyError"]
    ELSE IF stint_laps = 0 THEN [acc EXCEPT !.err = "ZeroDivisionError"]
    ELSE StintTimes(acc, LapTimes(p.base, RMul(p.slope, temp_factor), stint_laps),
                    DegPenalty(RMul(p.slope, temp_factor), stint_laps), stint_laps, first)

\* lines 113-125: the stint with its parameters p resolved, or the exception
StintWith(acc, p, stint_laps, first, temp_factor) ==
    IF ~p.ok THEN [acc EXCEPT !.err = "KeyError"]
    ELSE IF stint_laps = 0 THEN [acc EXCEPT !.err = "ZeroDivisionError"]
    ELSE StintTimes(acc, LapTimes(p.base, RMul(p.slope, temp_factor), stint_laps),
                    DegPenalty(p.slope, stint_laps), stint_laps, first)

\* lines 108-142 with the wet parameters derived from the entry of the
\* compound the plan names, not from the HARD entry
StintStepWetFromPlanCompound(acc, team_data, strategy, i, is_wet, temp_factor) ==
    IF is_wet /\ strategy[i][1] \in DOMAIN team_data
    THEN StintWith(acc, [ok |-> TRUE,
                         base |-> RAdd(team_data[strategy[i][1]].base, R(3)),
                         slope |-> RMul(team_data[strategy[i][1]].slope, <<3, 2>>)],
                   strategy[i][2], i = 1, temp_factor)
    ELSE StintWith(acc, StintParams(team_data, EffectiveComp(strategy[i][1], is_wet)),
                   strategy[i][2], i = 1, temp_factor)

\* lines 108-142: one pass of the loop body for stint i of the strategy
StintStep(acc, team_data, strategy, i, is_wet, temp_factor) ==
    StintWith(acc, StintParams(team_data, EffectiveComp(strategy[i][1], is_wet)),
              strategy[i][2], i = 1, temp_factor)

RECURSIVE StintLoop(_, _, _, _, _)
StintLoop(team_data, strategy, i, is_wet, temp_factor) ==
    IF i = 0 THEN LoopInit
    ELSE LET acc == StintLoop(team_data, strategy, i - 1, is_wet, temp_factor)
         IN  IF acc.err # "none" THEN acc
             ELSE StintStep(acc, team_data, strategy, i, is_wet, temp_factor)

\* what a call that raised leaves behind: the exception and the table
Raised(exc, dm) == [status |-> exc, dm |-> dm, analytics |-> <<>>]

\* line 69 with rain_prob >= 0.3
IsWetAtThreshold(weather) == RLeq(<<3, 10>>, weather.rain_prob)

\* line 69
IsWet(weather) == RLess(<<3, 10>>, weather.rain_prob)

\* line 71 without max(0, ...): a cooler track rewarded
TempFactorUnfloored(weather) ==
    RAdd(R(1), RDivInt(RAdd(weather.track_temp, R(-30)), 100))

\* line 71
TempFactor(weather) ==
    RAdd(R(1), RMax(R(0), RDivInt(RAdd(weather.track_temp, R(-30)), 100)))

\* lines 73-88: the teams of the track, synthesised under 'Other' when the
\* track is not in the table
TrackData(dm, track) ==
    IF track \notin DOMAIN dm THEN ("Other" :> TrackFallback(dm)) ELSE dm[track]

\* lines 90-101: track_data[team] = ... ; track_data is deg_models[track]
\* itself when the track is in the table, so the assignment writes the table
StoreTeam(dm, track, team, entry) ==
    IF track \in DOMAIN dm THEN [dm EXCEPT ![track] = @ @@ (team :> entry)] ELSE dm

\* lines 144-148: the analytics returned, or the exception of the loop
Outcome(dm, is_wet, acc) ==
    IF acc.err # "none" THEN Raised(acc.err, dm)
    ELSE [status |-> "ok", dm |-> dm,
          analytics |-> [stint_times |-> acc.stint_times,
                         deg_penalties |-> acc.deg_penalties,
                         avg_lap_times |-> acc.avg_lap_times,
                         cum_times |-> acc.cum_times,
                         total_time |-> IF is_wet THEN RMul(acc.total_time, <<11, 10>>)
                                                  ELSE acc.total_time]]

\* lines 103-148: the stints simulated with the team's entries; dm is the
\* table as lines 73-101 left it
RunStints(dm, team_data, weather, strategy) ==
    Outcome(dm, IsWet(weather),
            StintLoop(team_data, strategy, Len(strategy), IsWet(weather), TempFactor(weather)))

\* lines 90-148 with the teams of the track resolved
WithTrackData(dm, track_data, track, team, weather, strategy) ==
    IF team \notin DOMAIN track_data
    THEN RunStints(StoreTeam(dm, track, team, TeamFallback(track_data)),
                   TeamFallback(track_data), weather, strategy)
    ELSE RunStints(dm, track_data[team], weather, strategy)

\* lines 62-148 with lines 65-66 moved below line 101: the plan is validated
\* after the fallbacks have been synthesised and stored
simulate_strategy_validated_late(dm, track, team, weather, strategy) ==
    IF track \notin DOMAIN track_laps_dict THEN Raised("KeyError", dm)
    ELSE IF SumLaps(strategy, Len(strategy)) # track_laps_dict[track]
    THEN Raised("ValueError",
                IF team \notin DOMAIN TrackData(dm, track)
                THEN StoreTeam(dm, track, team, TeamFallback(TrackData(dm, track)))
                ELSE dm)
    ELSE WithTrackData(dm, TrackData(dm, track), track, team, weather, strategy)

\* lines 62-148: the outcome of simulate_strategy run on table dm
simulate_strategy(dm, track, team, weather, strategy) ==
    IF track \notin DOMAIN track_laps_dict THEN Raised("KeyError", dm)
    ELSE IF SumLaps(strategy, Len(strategy)) # track_laps_dict[track]
    THEN Raised("ValueError", dm)
    ELSE WithTrackData(dm, TrackData(dm, track), track, team, weather, strategy)

----------------------------------------------------------------------------
(* optimize_strategy                                                       *)

Min(a, b) == IF a < b THEN a ELSE b

Max(a, b) == IF a > b THEN a ELSE b

\* int(0.pp * total_laps); the float product truncates to the exact floor
\* for every total_laps below 180
Pct(pp, total_laps) == (pp * total_laps) \div 100

\* the first stint of a candidate without the floor of ten laps
ClampNoFloor(pp, total_laps, room) == Min(Pct(pp, total_laps), total_laps - room)

\* the first stint of a candidate: max(10, min(int(f * total_laps), total_laps - room))
Clamp(pp, total_laps, room) == Max(10, Min(Pct(pp, total_laps), total_laps - room))

\* the final stint of a candidate floored at ten laps like the others
RemainderFloored(total_laps, used) == Max(10, total_laps - used)

\* the final stint of a candidate: whatever the earlier stints leave
Remainder(total_laps, used) == total_laps - used

\* lines 155-182: the fixed menu of six candidates
Candidates(total_laps) ==
    LET s1 == Clamp(30, total_laps, 10)
        s2 == Clamp(50, total_laps, 10)
        s3 == Clamp(25, total_laps, 20)
        s4 == Clamp(35, total_laps, s3 + 10)
        s5 == Remainder(total_laps, s3 + s4)
        s6 == Clamp(30, total_laps, 20)
        s7 == Clamp(40, total_laps, s6 + 10)
        s8 == Remainder(total_laps, s6 + s7)
        s9 == Clamp(30, total_laps, 20)
        s10 == Clamp(30, total_laps, s9 + 10)
        s11 == Remainder(total_laps, s9 + s10)
        s12 == Clamp(20, total_laps, 20)
        s13 == Clamp(30, total_laps, s12 + 10)
        s14 == Remainder(total_laps, s12 + s13)
    IN  << << <<"SOFT", s1>>, <<"HARD", Remainder(total_laps, s1)>> >>,
           << <<"MEDIUM", s2>>, <<"HARD", Remainder(total_laps, s2)>> >>,
           << <<"SOFT", s3>>, <<"MEDIUM", s4>>, <<"HARD", s5>> >>,
           << <<"SOFT", s6>>, <<"HARD", s7>>, <<"HARD", s8>> >>,
           << <<"MEDIUM", s9>>, <<"SOFT", s10>>, <<"HARD", s11>> >>,
           << <<"SOFT", s12>>, <<"SOFT", s13>>, <<"HARD", s14>> >> >>

\* float('inf') and None of lines 187-189
Inf == <<1, 0>>

None == <<>>

\* line 194 with time <= best_time
ImprovesOrTies(time, best_time) == best_time = Inf \/ RLeq(time, best_time)

\* line 194: time < best_time
Improves(time, best_time) == best_time = Inf \/ RLess(time, best_time)

\* lines 187-189: the search state before the first candidate
SearchInit(dm) == [dm |-> dm, best_time |-> Inf, best_strat |-> None,
                   best_analytics |-> None, attempts |-> <<>>]

\* what the loop remembers of a candidate it has tried
Attempt(strat, sim) ==
    [strat |-> strat, status |-> sim.status,
     time |-> IF sim.status = "ok" THEN sim.analytics.total_time ELSE None]

\* lines 193-200 without line 197 once an analytics is held: a faster
\* candidate replaces the time and the plan, not the analytics
ConsiderStaleAnalytics(st, strat, sim) ==
    IF sim.status = "ok" /\ Improves(sim.analytics.total_time, st.best_time)
    THEN [dm |-> sim.dm, best_time |-> sim.analytics.total_time, best_strat |-> strat,
          best_analytics |-> IF st.best_analytics = None THEN sim.analytics
                             ELSE st.best_analytics,
          attempts |-> Append(st.attempts, Attempt(strat, sim))]
    ELSE [st EXCEPT !.dm = sim.dm, !.attempts = Append(st.attempts, Attempt(strat, sim))]

\* lines 193-200: the outcome sim of a candidate taken into the search state
Consider(st, strat, sim) ==
    IF sim.status = "ok" /\ Improves(sim.analytics.total_time, st.best_time)
    THEN [dm |-> sim.dm, best_time |-> sim.analytics.total_time, best_strat |-> strat,
          best_analytics |-> sim.analytics,
          attempts |-> Append(st.attempts, Attempt(strat, sim))]
    ELSE [st EXCEPT !.dm = sim.dm, !.attempts = Append(st.attempts, Attempt(strat, sim))]

\* lines 191-200 with break for continue: the loop ends at the first
\* candidate that raises
SearchStepBreak(st, track, team, weather, strat) ==
    IF st.attempts # <<>> /\ st.attempts[Len(st.attempts)].status # "ok" THEN st
    ELSE Consider(st, strat, simulate_strategy(st.dm, track, team, weather, strat))

\* lines 191-200: one candidate simulated; an exception skips it
SearchStep(st, track, team, weather, strat) ==
    Consider(st, strat, simulate_strategy(st.dm, track, team, weather, strat))

RECURSIVE Search(_, _, _, _, _, _)
Search(dm, track, team, weather, candidates, k) ==
    IF k = 0 THEN SearchInit(dm)
    ELSE SearchStep(Search(dm, track, team, weather, candidates, k - 1),
                    track, team, weather, candidates[k])

\* lines 190-200: every candidate of the menu, in menu order
SearchAll(dm, track, team, weather, candidates) ==
    Search(dm, track, team, weather, candidates, Len(candidates))

\* line 210 with range(1, len(best_strat) + 1): the end of the race counted
\* as a pit lap
PitLapsThroughLast(best_strat) == [i \in 1..Len(best_strat) |-> SumLaps(best_strat, i)]

\* line 210: cumsum of the stints before each pit stop
PitLaps(best_strat) == [i \in 1..(Len(best_strat) - 1) |-> SumLaps(best_strat, i)]

\* line 205: the single-stint plan of last resort
MediumPlan(total_laps) == << <<"MEDIUM", total_laps>> >>

\* lines 205-212 with the fallback plan simulated as fb
FallbackResult(st, fb, total_laps) ==
    IF fb.status # "ok"
    THEN [status |-> fb.status, dm |-> fb.dm, attempts |-> st.attempts, fallback |-> TRUE]
    ELSE [status |-> "ok", dm |-> fb.dm, attempts |-> st.attempts, fallback |-> TRUE,
          best_strat |-> MediumPlan(total_laps), best_time |-> fb.analytics.total_time,
          pit_laps |-> PitLaps(MediumPlan(total_laps)), best_analytics |-> fb.analytics]

\* lines 202-212 with the search over the menu finished in state st
Conclude(st, track, team, weather, total_laps) ==
    IF st.best_strat # None
    THEN [status |-> "ok", dm |-> st.dm, attempts |-> st.attempts, fallback |-> FALSE,
          best_strat |-> st.best_strat, best_time |-> st.best_time,
          pit_laps |-> PitLaps(st.best_strat), best_analytics |-> st.best_analytics]
    ELSE FallbackResult(st, simulate_strategy(st.dm, track, team, weather,
                                              MediumPlan(total_laps)), total_laps)

\* lines 150-212: the outcome of optimize_strategy run on table dm
optimize_strategy(dm, track, team, weather) ==
    IF track \notin DOMAIN track_laps_dict
    THEN [status |-> "KeyError", dm |-> dm, attempts |-> <<>>, fallback |-> FALSE]
    ELSE Conclude(SearchAll(dm, track, team, weather, Candidates(track_laps_dict[track])),
                  track, team, weather, track_laps_dict[track])

----------------------------------------------------------------------------
(* get_weather, optimize_strategy without a weather, explain_strategy      *)

\* the keys of TRACK_COORDS, restricted to the circuits of track_laps_dict
TRACK_COORDS == {"Belgium", "Silverstone", "Monza"}

\* os.getenv('OPENWEATHER_API_KEY') when the variable is not set
NoKey == ""

\* line 35: not (not api_key or api_key == 'demo')
KeyUsable(api_key) == api_key # NoKey /\ api_key # "demo"

\* lines 38, 45, 54: the neutral dry weather
DefaultWeather == [track_temp |-> R(30), rain_prob |-> <<1, 10>>]

\* what get_weather hands back, or the exception it lets out
Fetched(weather) == [status |-> "ok", weather |-> weather]

RMin(a, b) == IF RLess(b, a) THEN b ELSE a

\* lines 46-51: the weather read off a response of code 200 that has 'main'
ParsedWeather(resp) ==
    [track_temp |-> RAdd(resp.temp, R(10)),
     rain_prob |-> RMin(R(1), RDivInt(IF resp.has_rain THEN resp.rain ELSE R(0), 5))]

\* lines 30-55 with lines 46-51 moved out of the try block: a response
\* without 'main' raises KeyError to the caller
get_weather_parse_unguarded(api_key, resp, track) ==
    IF track \notin TRACK_COORDS THEN [status |-> "ValueError", weather |-> None]
    ELSE IF ~KeyUsable(api_key) THEN Fetched(DefaultWeather)
    ELSE IF resp.kind = "raises" THEN Fetched(DefaultWeather)
    ELSE IF resp.cod # 200 THEN Fetched(DefaultWeather)
    ELSE IF ~resp.has_main THEN [status |-> "KeyError", weather |-> None]
    ELSE Fetched(ParsedWeather(resp))

\* lines 30-55: resp is what requests.get(...).json() does when it is called
get_weather(api_key, resp, track) ==
    IF track \notin TRACK_COORDS THEN [status |-> "ValueError", weather |-> None]
    ELSE IF ~KeyUsable(api_key) THEN Fetched(DefaultWeather)
    ELSE IF resp.kind = "raises" THEN Fetched(DefaultWeather)
    ELSE IF resp.cod # 200 THEN Fetched(DefaultWeather)
    ELSE IF ~resp.has_main THEN Fetched(DefaultWeather)
    ELSE Fetched(ParsedWeather(resp))

\* lines 190-206: the calls of simulate_strategy a finished search has made,
\* one for every candidate attempted and one for the fallback plan
SimulateCalls(out) ==
    [k \in 1..(Len(out.attempts) + (IF out.fallback THEN 1 ELSE 0)) |-> "simulate_strategy"]

\* lines 184-206: the calls optimize_strategy has made, in order: those
\* before the search, then the search's
WithEvents(before, out) == [events |-> before \o SimulateCalls(out)] @@ out

\* the calls of lines 184-206 with get_weather called inside the loop, once
\* before every simulate_strategy
FetchedPerCandidate(out) ==
    [events |-> [k \in 1..(2 * Len(SimulateCalls(out))) |->
                    IF k % 2 = 1 THEN "get_weather" ELSE "simulate_strategy"]] @@ out

\* lines 184-212 with line 185 moved into the loop of lines 190-200
WithWeatherFetchedPerCandidate(dm, w, track, team) ==
    IF w.status # "ok"
    THEN [status |-> w.status, dm |-> dm, attempts |-> <<>>, fallback |-> FALSE,
          consulted |-> TRUE, weather |-> None, events |-> <<"get_weather">>]
    ELSE [consulted |-> TRUE, weather |-> w.weather]
            @@ FetchedPerCandidate(optimize_strategy(dm, track, team, w.weather))

\* lines 184-212 with get_weather's outcome w
WithWeather(dm, w, track, team) ==
    IF w.status # "ok"
    THEN [status |-> w.status, dm |-> dm, attempts |-> <<>>, fallback |-> FALSE,
          consulted |-> TRUE, weather |-> None, events |-> <<"get_weather">>]
    ELSE [consulted |-> TRUE, weather |-> w.weather]
            @@ WithEvents(<<"get_weather">>, optimize_strategy(dm, track, team, w.weather))

\* lines 150-212 with get_weather called first, before track_laps_dict[track]
weather_first(dm, api_key, resp, track, team) ==
    WithWeather(dm, get_weather(api_key, resp, track), track, team)

\* lines 150-212 called with weather = None
optimize_strategy_weather_none(dm, api_key, resp, track, team) ==
    IF track \notin DOMAIN track_laps_dict
    THEN [status |-> "KeyError", dm |-> dm, attempts |-> <<>>, fallback |-> FALSE,
          consulted |-> FALSE, weather |-> None, events |-> <<>>]
    ELSE WithWeather(dm, get_weather(api_key, resp, track), track, team)

\* lines 150-212 called with a weather: line 185 is skipped
optimize_strategy_weather_given(dm, track, team, weather) ==
    [consulted |-> FALSE, weather |-> weather]
        @@ WithEvents(<<>>, optimize_strategy(dm, track, team, weather))

\* what explain_strategy hands back, or the exception it lets out
Explained(status, text) == [status |-> status, text |-> text]

\* lines 220-240 without the inner try block
explain_strategy_unguarded(def, api, strategy, track, weather) ==
    CASE def = "ImportError" -> Explained("ok", "Groq SDK not installed")
      [] def = "InitError" -> Explained("ok", "Groq initialization error")
      [] def = "client" ->
            IF api = "content" THEN Explained("ok", "content")
            ELSE IF api = "raises" THEN Explained("Exception", "")
            ELSE Explained("IndexError", "")

\* lines 215-247: the definition the import left in place, applied; api is
\* what client.chat.completions.create does when it is called
explain_strategy(def, api, strategy, track, weather) ==
    CASE def = "ImportError" -> Explained("ok", "Groq SDK not installed")
      [] def = "InitError" -> Explained("ok", "Groq initialization error")
      [] def = "client" ->
            IF api = "content" THEN Explained("ok", "content")
            ELSE Explained("ok", "LLM Error")

----------------------------------------------------------------------------
(* The tables prepare_data can write, and the arguments of the calls.      *)

\* the greatest track temperature tried is 20 + 10 * TempSteps degrees
TempSteps == 2

\* single-stint plans are tried with every lap count within SumSlack of the race distance
SumSlack == 1

\* menu construction alone is tried for every lap count 1..MaxLaps
MaxLaps == 120

AllCompounds == DryCompounds \cup {"INTERMEDIATE"}

\* a fitted entry: the base rises with the hardness of the compound, the
\* slope falls (the shape of the hardcoded table of prepare_data)
FittedEntry(track, team, comp) ==
    LET b0 == IF track = "Monza" THEN 85 ELSE 89
        tm == IF team = "Mercedes" THEN 1 ELSE 0
    IN  CASE comp = "SOFT" -> Entry(R(b0 + tm), <<3, 50>>)
          [] comp = "MEDIUM" -> Entry(R(b0 + tm + 1), <<1, 25>>)
          [] comp = "HARD" -> Entry(R(b0 + tm + 3), <<1, 50>>)

\* every compound of every team fitted to the same lap time, without wear
FlatEntry(track, team, comp) == Entry(R(90), R(0))

SMH == {"SOFT", "MEDIUM", "HARD"}

\* which compounds prepare_data fitted for which (track, team)
Shapes ==
    { ("Monza" :> ("Ferrari" :> SMH @@ "Mercedes" :> SMH)) @@ ("Silverstone" :> ("Other" :> SMH)),
      ("Monza" :> ("Ferrari" :> {"SOFT", "HARD"} @@ "Mercedes" :> {"MEDIUM", "HARD"})),
      ("Monza" :> ("Ferrari" :> {"SOFT", "MEDIUM"})),
      ("Monza" :> ("Ferrari" :> {"SOFT"} @@ "Mercedes" :> SMH)),
      ("Monza" :> ("Ferrari" :> {})) }

FittedTable(shape) ==
    [t \in DOMAIN shape |-> [tm \in DOMAIN shape[t] |->
        [c \in shape[t][tm] |-> FittedEntry(t, tm, c)]]]

FlatTable ==
    [t \in {"Monza"} |-> [tm \in {"Ferrari"} |-> [c \in SMH |-> FlatEntry(t, tm, c)]]]

\* a regression whose slope came out negative (reg.coef_[0] is not clamped):
\* lap times fall by two seconds a lap
FallingEntry(track, team, comp) == Entry(R(90), R(-2))

FallingTable ==
    [t \in {"Monza"} |-> [tm \in {"Ferrari"} |-> [c \in SMH |-> FallingEntry(t, tm, c)]]]

Tables == {FittedTable(sh) : sh \in Shapes} \cup {FlatTable, FallingTable}

Tracks == DOMAIN track_laps_dict \cup {"Nordschleife"}

Teams == {"Ferrari", "McLaren", "Other"}

Weather(temp, rain) == [track_temp |-> R(temp), rain_prob |-> rain]

Weathers ==
    {Weather(20 + 10 * k, R(0)) : k \in 0..TempSteps}
        \cup {Weather(30, <<3, 10>>), Weather(30, <<1, 2>>), Weather(40, <<1, 2>>)}

LapsOf(track) == IF track \in DOMAIN track_laps_dict THEN track_laps_dict[track] ELSE 50

\* the plans handed to simulate_strategy: single stints of every compound,
\* right and wrong in length, a plan with an empty stint, and two of the menu
Plans(track) ==
    LET T == LapsOf(track)
    IN  {<< <<c, T + e>> >> : c \in AllCompounds, e \in (0 - SumSlack)..SumSlack}
            \cup {<< <<"SOFT", 0>>, <<"HARD", T>> >>}
            \cup {Candidates(T)[k] : k \in {1, 3}}

----------------------------------------------------------------------------
(* The engine as a state machine: the module is loaded, then called.       *)

NoCall == [op |-> "none"]

Init ==
    /\ deg_models \in Tables
    /\ loaded = deg_models
    /\ pc = "idle"
    /\ call = NoCall
    /\ result = None
    /\ menu_laps = 0
    /\ menu = <<>>
    /\ validated = {}
    /\ rejected = {}
    /\ OW_API_KEY = NoKey
    /\ explain_def = "ImportError"

\* a call of simulate_strategy, from entry to return or raise
SimulateStrategy ==
    /\ pc = "idle"
    /\ \E track \in Tracks, team \in Teams, weather \in Weathers :
        \E strategy \in Plans(track) :
            \E out \in {simulate_strategy(deg_models, track, team, weather, strategy)} :
                /\ call' = [op |-> "simulate", track |-> track, team |-> team,
                            weather |-> weather, strategy |-> strategy]
                /\ deg_models' = out.dm
                /\ result' = [status |-> out.status, analytics |-> out.analytics]
    /\ pc' = "returned"
    /\ UNCHANGED <<loaded, menu_laps, menu, validated, rejected, OW_API_KEY, explain_def>>

\* a call of optimize_strategy with the weather given, from entry to return or raise
OptimizeStrategy ==
    /\ pc = "idle"
    /\ \E track \in Tracks, team \in Teams, weather \in Weathers :
            \E out \in {optimize_strategy(deg_models, track, team, weather)} :
                /\ call' = [op |-> "optimize", track |-> track, team |-> team,
                            weather |-> weather]
                /\ deg_models' = out.dm
                /\ result' = [f \in DOMAIN out \ {"dm"} |-> out[f]]
    /\ pc' = "returned"
    /\ UNCHANGED <<loaded, menu_laps, menu, validated, rejected, OW_API_KEY, explain_def>>

\* the caller has the outcome; the engine waits for the next call
Return ==
    /\ pc \in {"returned", "explained"}
    /\ pc' = "idle"
    /\ call' = NoCall
    /\ result' = None
    /\ UNCHANGED <<deg_models, loaded, menu_laps, menu, validated, rejected,
                   OW_API_KEY, explain_def>>

Next == SimulateStrategy \/ OptimizeStrategy \/ Return

Spec == Init /\ [][Next]_vars

----------------------------------------------------------------------------
(* Menu construction alone: lines 152-182 for any lap count, and the       *)
(* lap-sum validation of lines 65-66 applied to each candidate built.      *)

InitMenu ==
    /\ deg_models = FlatTable
    /\ loaded = deg_models
    /\ pc = "idle"
    /\ call = NoCall
    /\ result = None
    /\ menu_laps = 0
    /\ menu = <<>>
    /\ validated = {}
    /\ rejected = {}
    /\ OW_API_KEY = NoKey
    /\ explain_def = "ImportError"

BuildMenu ==
    /\ menu_laps = 0
    /\ \E T \in 1..MaxLaps :
        /\ menu_laps' = T
        /\ menu' = Candidates(T)
    /\ UNCHANGED <<validated, rejected>>
    /\ UNCHANGED <<deg_models, loaded, pc, call, result, OW_API_KEY, explain_def>>

\* lines 65-66 on candidate k
ValidateCandidate ==
    /\ menu_laps > 0
    /\ \E k \in (1..Len(menu)) \ validated :
        /\ validated' = validated \cup {k}
        /\ rejected' = IF SumLaps(menu[k], Len(menu[k])) # menu_laps
                        THEN rejected \cup {k} ELSE rejected
    /\ UNCHANGED <<deg_models, loaded, pc, call, result, menu_laps, menu,
                   OW_API_KEY, explain_def>>

NextMenu == BuildMenu \/ ValidateCandidate

SpecMenu == InitMenu /\ [][NextMenu]_vars

----------------------------------------------------------------------------
(* The engine with its collaborators: weather fetched, strategy            *)
(* optimized without a weather given, and the result explained.            *)

Keys == {NoKey, "demo", "0123abcd"}

ExplainDefs == {"client", "ImportError", "InitError"}

Response(kind, cod, has_main, temp, has_rain, rain) ==
    [kind |-> kind, cod |-> cod, has_main |-> has_main, temp |-> R(temp),
     has_rain |-> has_rain, rain |-> R(rain)]

\* no request is made
NoRequest == Response("none", 0, FALSE, 0, FALSE, 0)

\* what the weather service can do to a request
Responses(api_key) ==
    IF ~KeyUsable(api_key) THEN {NoRequest}
    ELSE {Response("raises", 0, FALSE, 0, FALSE, 0),
          Response("json", 401, FALSE, 0, FALSE, 0),
          Response("json", 200, FALSE, 0, TRUE, 2),
          Response("json", 200, TRUE, 15, FALSE, 0),
          Response("json", 200, TRUE, 25, TRUE, 2),
          Response("json", 200, TRUE, 10, TRUE, 10)}

\* what the language model service can do to a request
Completions(def) == IF def = "client" THEN {"content", "raises", "no_choices"} ELSE {"none"}

InitApp ==
    /\ deg_models = FlatTable
    /\ loaded = deg_models
    /\ pc = "idle"
    /\ call = NoCall
    /\ result = None
    /\ menu_laps = 0
    /\ menu = <<>>
    /\ validated = {}
    /\ rejected = {}
    /\ OW_API_KEY \in Keys
    /\ explain_def \in ExplainDefs

\* a call of get_weather, as app.py makes before it optimizes
GetWeather ==
    /\ pc = "idle"
    /\ \E track \in Tracks, resp \in Responses(OW_API_KEY) :
        \E out \in {get_weather(OW_API_KEY, resp, track)} :
            /\ call' = [op |-> "get_weather", track |-> track, response |-> resp]
            /\ result' = out
    /\ pc' = "returned"
    /\ UNCHANGED <<deg_models, loaded, menu_laps, menu, validated, rejected,
                   OW_API_KEY, explain_def>>

\* a call of optimize_strategy with no weather given
OptimizeStrategyWeatherNone ==
    /\ pc = "idle"
    /\ \E track \in Tracks, team \in Teams, resp \in Responses(OW_API_KEY) :
        \E out \in {optimize_strategy_weather_none(deg_models, OW_API_KEY, resp, track, team)} :
            /\ call' = [op |-> "optimize", track |-> track, team |-> team,
                        weather |-> out.weather, response |-> resp, given |-> FALSE]
            /\ deg_models' = out.dm
            /\ result' = [f \in DOMAIN out \ {"dm"} |-> out[f]]
    /\ pc' = "returned"
    /\ UNCHANGED <<loaded, menu_laps, menu, validated, rejected, OW_API_KEY, explain_def>>

\* app.py lines 203-206: the strategy optimize_strategy returned is explained
ExplainStrategy ==
    /\ pc = "returned"
    /\ call.op = "optimize"
    /\ result.status = "ok"
    /\ \E api \in Completions(explain_def) :
        \E out \in {explain_strategy(explain_def, api, result.best_strat, call.track,
                                      call.weather)} :
            /\ call' = [call EXCEPT !.op = "explain"] @@ [completion |-> api]
            /\ result' = [explanation |-> out] @@ result
    /\ pc' = "explained"
    /\ UNCHANGED <<deg_models, loaded, menu_laps, menu, validated, rejected,
                   OW_API_KEY, explain_def>>

\* the weathers handed to optimize_strategy and simulate_strategy by a caller
GivenWeathers == {DefaultWeather, Weather(30, <<1, 2>>)}

\* app.py lines 57 and 233: optimize_strategy called with a weather
OptimizeStrategyWeatherGiven ==
    /\ pc = "idle"
    /\ \E track \in Tracks, team \in Teams, weather \in GivenWeathers :
        \E out \in {optimize_strategy_weather_given(deg_models, track, team, weather)} :
            /\ call' = [op |-> "optimize", track |-> track, team |-> team,
                        weather |-> weather, response |-> NoRequest, given |-> TRUE]
            /\ deg_models' = out.dm
            /\ result' = [f \in DOMAIN out \ {"dm"} |-> out[f]]
    /\ pc' = "returned"
    /\ UNCHANGED <<loaded, menu_laps, menu, validated, rejected, OW_API_KEY, explain_def>>

\* a call of simulate_strategy: it has no call of get_weather in it
SimulateStrategyDirect ==
    /\ pc = "idle"
    /\ \E track \in Tracks, team \in Teams, weather \in GivenWeathers :
        \E strategy \in Plans(track) :
            \E out \in {simulate_strategy(deg_models, track, team, weather, strategy)} :
                /\ call' = [op |-> "simulate", track |-> track, team |-> team,
                            weather |-> weather, strategy |-> strategy]
                /\ deg_models' = out.dm
                /\ result' = [status |-> out.status, analytics |-> out.analytics,
                              events |-> <<>>]
    /\ pc' = "returned"
    /\ UNCHANGED <<loaded, menu_laps, menu, validated, rejected, OW_API_KEY, explain_def>>

NextApp ==
    \/ GetWeather
    \/ OptimizeStrategyWeatherNone
    \/ OptimizeStrategyWeatherGiven
    \/ SimulateStrategyDirect
    \/ ExplainStrategy
    \/ Return

SpecApp == InitApp /\ [][NextApp]_vars

----------------------------------------------------------------------------
(* Properties.                                                             *)

Registered(track) == track \in DOMAIN track_laps_dict

AllPositive(strategy) == \A i \in 1..Len(strategy) : strategy[i][2] > 0

Returned(op) == pc = "returned" /\ call.op = op

\* the (track, team, compound) entries of a table, with their values
Entries(dm) ==
    UNION {UNION {{<<t, tm, c, dm[t][tm][c]>> : c \in DOMAIN dm[t][tm]} :
                  tm \in DOMAIN dm[t]} : t \in DOMAIN dm}

\* every dry compound has an entry somewhere in the table: the table is not
\* the one spec section 4.1 leaves undefined
EveryCompoundFitted(dm) ==
    \A c \in DryCompounds : \E e \in Entries(dm) : e[3] = c

\* C1: on a registered track, over a table that fits every compound somewhere,
\* a plan of positive lap counts is rejected with the validation error exactly
\* when its lap counts do not sum to the track's laps, and a plan whose sum
\* matches returns analytics and raises no other error.
C1_SumDecidesOutcome ==
    (/\ Returned("simulate")
     /\ EveryCompoundFitted(loaded)
     /\ Registered(call.track)
     /\ AllPositive(call.strategy)) =>
        IF SumLaps(call.strategy, Len(call.strategy)) # track_laps_dict[call.track]
        THEN result.status = "ValueError"
        ELSE result.status = "ok"

\* C2: optimize_strategy returns a result, and raises nothing, for every
\* registered track, over every table that fits every compound somewhere.
C2_OptimizeNeverRaises ==
    (/\ Returned("optimize")
     /\ EveryCompoundFitted(loaded)
     /\ Registered(call.track)) => result.status = "ok"

\* C3: the table holds exactly the entries it held after loading, whatever
\* calls have been made.
C3_TableUnchanged == Entries(deg_models) = Entries(loaded)

\* C4: a call of simulate_strategy returns what the same call returns on the
\* table as loaded, whatever calls were made before it.
C4_SameAsOnLoadedTable ==
    Returned("simulate") =>
        \A fresh \in {simulate_strategy(loaded, call.track, call.team, call.weather,
                                         call.strategy)} :
            /\ result.status = fresh.status
            /\ result.analytics = fresh.analytics

\* a call that returned normally
Succeeded(op) == Returned(op) /\ result.status = "ok"

\* the candidates of the finished search that simulated without an exception
Simulated == {k \in 1..Len(result.attempts) : result.attempts[k].status = "ok"}

\* C5: when a candidate simulated successfully, optimize_strategy returns a
\* successfully simulated candidate whose total time no other one beats, and
\* no candidate earlier in the menu has the same total time.
C5_MinimumEarliestOnTies ==
    (Returned("optimize") /\ Registered(call.track) /\ Simulated # {}) =>
        /\ result.status = "ok"
        /\ ~result.fallback
        /\ \E k \in Simulated :
            /\ result.best_strat = result.attempts[k].strat
            /\ result.best_time = result.attempts[k].time
            /\ \A j \in Simulated : RLeq(result.attempts[k].time, result.attempts[j].time)
            /\ \A j \in Simulated : j < k => result.attempts[j].time # result.attempts[k].time

\* two candidates tied for the minimum, and the earlier one returned
C5_TieReturned ==
    /\ Succeeded("optimize")
    /\ \E j, k \in Simulated :
        /\ j < k
        /\ result.attempts[j].time = result.attempts[k].time
        /\ result.best_time = result.attempts[j].time
        /\ result.best_strat = result.attempts[j].strat
        /\ result.best_strat # result.attempts[k].strat

\* C6: for every lap count, each of the six candidates built sums to the lap
\* count, and the lap-sum validation rejects none of them.
C6_CandidatesSumToTotal ==
    menu_laps > 0 =>
        /\ Len(menu) = 6
        /\ \A k \in 1..Len(menu) : SumLaps(menu[k], Len(menu[k])) = menu_laps
        /\ rejected = {}

\* every candidate of a menu validated, for a race too short for three stints
\* of ten laps: the final stint absorbs a remainder below ten
C6_ShortRaceValidated ==
    /\ menu_laps = 25
    /\ validated = 1..6
    /\ rejected = {}
    /\ menu[3][3][2] = 5

\* the fewest laps of any stint of any candidate of the menu
AllStintsAtLeast(n) ==
    \A k \in 1..Len(menu) : \A i \in 1..Len(menu[k]) : menu[k][i][2] >= n

\* C7 as stated: for every lap count, every stint of every candidate has at
\* least 10 laps.
C7_EveryStintTenLaps == menu_laps > 0 => AllStintsAtLeast(10)

\* C7: every stint of every candidate has at least 10 laps exactly when the
\* race has at least 30 laps, and every stint has a positive lap count when
\* the race has more than 20 laps.
C7_TenLapsFromThirty ==
    menu_laps > 0 =>
        /\ AllStintsAtLeast(10) <=> menu_laps >= 30
        /\ menu_laps > 20 => AllStintsAtLeast(1)

\* the shortest race whose candidates all have stints of ten laps
C7_ThirtyLapMenu ==
    /\ menu_laps = 30
    /\ menu[1] = << <<"SOFT", 10>>, <<"HARD", 20>> >>
    /\ menu[3] = << <<"SOFT", 10>>, <<"MEDIUM", 10>>, <<"HARD", 10>> >>

\* the weather of the call with no rain
DryWeather == [call.weather EXCEPT !.rain_prob = R(0)]

\* the plan of the call with every compound replaced by INTERMEDIATE
AsIntermediate(strategy) == [i \in 1..Len(strategy) |-> <<"INTERMEDIATE", strategy[i][2]>>]

HalfRain == call.weather.rain_prob = <<1, 2>>

\* C8 as stated: a plan simulated at rain probability 0.5 totals 1.1 times
\* what the same plan totals at rain probability 0.
C8_WetIsDryTimesElevenTenths ==
    (Succeeded("simulate") /\ HalfRain) =>
        \A dry \in {simulate_strategy(deg_models, call.track, call.team, DryWeather,
                                       call.strategy)} :
            /\ dry.status = "ok"
            /\ result.analytics.total_time = RMul(dry.analytics.total_time, <<11, 10>>)

\* C8: a plan simulated at rain probability 0.5 has the stint times and the
\* cumulative times of the plan with every compound replaced by INTERMEDIATE
\* simulated at rain probability 0, and totals 1.1 times what that plan totals.
C8_WetIsIntermediateTimesElevenTenths ==
    (Succeeded("simulate") /\ HalfRain) =>
        \A inter \in {simulate_strategy(deg_models, call.track, call.team, DryWeather,
                                         AsIntermediate(call.strategy))} :
            /\ inter.status = "ok"
            /\ result.analytics.stint_times = inter.analytics.stint_times
            /\ result.analytics.cum_times = inter.analytics.cum_times
            /\ result.analytics.total_time = RMul(inter.analytics.total_time, <<11, 10>>)

\* a two-stint plan of dry compounds simulated at rain probability 0.5
C8_WetTwoStints ==
    /\ Succeeded("simulate")
    /\ HalfRain
    /\ Len(call.strategy) = 2
    /\ call.strategy[1][1] = "SOFT"
    /\ AllPositive(call.strategy)

\* the analytics a successful call returned
Analytics == IF call.op = "simulate" THEN result.analytics ELSE result.best_analytics

Last(s) == s[Len(s)]

\* C9: the cum_times of a successful simulation has one entry more than the
\* track has laps, starts at 0, and ends at total_time in a dry race and at
\* total_time / 1.1 in a wet race.
C9_CumTimesShape ==
    (Succeeded("simulate") \/ Succeeded("optimize")) =>
        /\ Len(Analytics.cum_times) = track_laps_dict[call.track] + 1
        /\ Analytics.cum_times[1] = R(0)
        /\ Analytics.total_time =
              IF IsWet(call.weather) THEN RMul(Last(Analytics.cum_times), <<11, 10>>)
              ELSE Last(Analytics.cum_times)

\* a wet race of three stints simulated: two pit stops in the total
C9_WetThreeStints ==
    /\ Succeeded("simulate")
    /\ IsWet(call.weather)
    /\ Len(call.strategy) = 3
    /\ Len(Analytics.cum_times) = track_laps_dict[call.track] + 1

\* every entry of the table has a base and a slope of zero or more
NonNegativeEntries(dm) ==
    \A e \in Entries(dm) : RLeq(R(0), e[4].base) /\ RLeq(R(0), e[4].slope)

\* C10: over a table whose entries all have a non-negative base and slope,
\* the cum_times of a successful simulation never decreases.
C10_CumTimesNonDecreasing ==
    ((Succeeded("simulate") \/ Succeeded("optimize")) /\ NonNegativeEntries(loaded)) =>
        \A i \in 1..(Len(Analytics.cum_times) - 1) :
            RLeq(Analytics.cum_times[i], Analytics.cum_times[i + 1])

\* a hot race of three stints optimized: the lap a pit stop is folded into
\* is followed by a lap of the next stint
C10_ThreeStintsOptimized ==
    /\ Succeeded("optimize")
    /\ NonNegativeEntries(loaded)
    /\ Len(result.best_strat) = 3
    /\ RLess(R(1), TempFactor(call.weather))
    /\ RLess(Analytics.cum_times[result.pit_laps[1] + 1],
             Analytics.cum_times[result.pit_laps[1] + 2])

\* C11: the pit_laps optimize_strategy returns has one entry for every stint
\* of the returned plan but the last, its first entry is the first stint's lap
\* count and each later entry adds the next stint's lap count; the entries
\* rise strictly and lie within 1..totalLaps-1; the single-stint fallback
\* plan has no entry.
C11_PitLapsPrefixSums ==
    Succeeded("optimize") =>
        /\ Len(result.pit_laps) = Len(result.best_strat) - 1
        /\ \A i \in 1..Len(result.pit_laps) :
            /\ result.pit_laps[i] =
                  (IF i = 1 THEN 0 ELSE result.pit_laps[i - 1]) + result.best_strat[i][2]
            /\ i > 1 => result.pit_laps[i - 1] < result.pit_laps[i]
            /\ result.pit_laps[i] \in 1..(track_laps_dict[call.track] - 1)
        /\ result.fallback => result.pit_laps = <<>>

\* a plan of three stints returned with its two pit laps
C11_TwoPitLaps ==
    /\ Succeeded("optimize")
    /\ Len(result.best_strat) = 3
    /\ Len(result.pit_laps) = 2
    /\ result.pit_laps[2] = result.best_strat[1][2] + result.best_strat[2][2]

\* C12: over a table without a single entry, optimize_strategy on a
\* registered track returns the single-stint MEDIUM plan with no pit lap and
\* the total time simulate_strategy gives that plan for team 'Other'.
C12_EmptyTableMediumFallback ==
    (Returned("optimize") /\ Registered(call.track) /\ Entries(loaded) = {}) =>
        /\ result.status = "ok"
        /\ result.best_strat = MediumPlan(track_laps_dict[call.track])
        /\ result.pit_laps = <<>>
        /\ \A sim \in {simulate_strategy(deg_models, call.track, "Other", call.weather,
                                          MediumPlan(track_laps_dict[call.track]))} :
            /\ sim.status = "ok"
            /\ result.best_time = sim.analytics.total_time

\* the (track, team) pairs of a table that have the compound
PairsWith(dm, comp) == {<<e[1], e[2]>> : e \in {x \in Entries(dm) : x[3] = comp}}

\* the sum of a field ("base" or "slope") of the compound over the pairs
RECURSIVE FieldSum(_, _, _, _)
FieldSum(dm, pairs, comp, field) ==
    IF pairs = {} THEN R(0)
    ELSE LET p == CHOOSE x \in pairs : TRUE
         IN  RAdd(FieldSum(dm, pairs \ {p}, comp, field), dm[p[1]][p[2]][comp][field])

\* entry e holds the mean base and the mean slope of the compound over the pairs
IsMeanEntry(e, dm, pairs, comp) ==
    /\ RMul(e.base, R(Cardinality(pairs))) = FieldSum(dm, pairs, comp, "base")
    /\ RMul(e.slope, R(Cardinality(pairs))) = FieldSum(dm, pairs, comp, "slope")

\* team_data holds, for each compound some pair has, its mean over the pairs
\* of the table that have it, and no other compound
IsMeanOver(team_data, dm, pairs) ==
    \A c \in DryCompounds :
        IF PairsWith(dm, c) \cap pairs = {}
        THEN c \notin DOMAIN team_data
        ELSE c \in DOMAIN team_data
                /\ IsMeanEntry(team_data[c], dm, PairsWith(dm, c) \cap pairs, c)

\* the call was for a track the loaded table has and a team it has not there
TeamAbsent ==
    /\ Returned("simulate")
    /\ result.status # "ValueError"
    /\ call.track \in DOMAIN loaded
    /\ call.team \notin DOMAIN loaded[call.track]

\* C13: for a team the loaded table does not have at a track it has, every
\* call of simulate_strategy, the first and the later ones, computes with the
\* per-compound means over the teams loaded for the track that have the
\* compound.
C13_TeamFallbackIsMeanOfLoadedTeams ==
    TeamAbsent =>
        /\ call.team \in DOMAIN deg_models[call.track]
        /\ IsMeanOver(deg_models[call.track][call.team], loaded,
                      {<<call.track, tm>> : tm \in DOMAIN loaded[call.track]})
        /\ \A sim \in {RunStints(deg_models, deg_models[call.track][call.team],
                                   call.weather, call.strategy)} :
            /\ result.status = sim.status
            /\ result.analytics = sim.analytics

\* a later call: McLaren simulated at Monza after 'Other' was, over teams
\* that do not all have every compound
C13_SecondAbsentTeam ==
    /\ TeamAbsent
    /\ result.status = "ok"
    /\ call.team = "McLaren"
    /\ "Other" \in DOMAIN deg_models[call.track]
    /\ "Other" \notin DOMAIN loaded[call.track]
    /\ \E tm \in DOMAIN loaded[call.track] : "SOFT" \notin DOMAIN loaded[call.track][tm]

\* the plan the analytics of a successful call belong to
Plan == IF call.op = "simulate" THEN call.strategy ELSE result.best_strat

\* the entries the call computed with: the team's, or the fallback's
TeamData ==
    LET track_data == TrackData(deg_models, call.track)
    IN  IF call.team \in DOMAIN track_data THEN track_data[call.team]
        ELSE TeamFallback(track_data)

\* the base and slope of stint i of the plan
ParamsOf(i) == StintParams(TeamData, EffectiveComp(Plan[i][1], IsWet(call.weather)))

\* the time of the lap at 0-based position j of stint i of the plan, as
\* cum_times records it: the step from the entry before it
RecordedLap(i, j) ==
    LET n == SumLaps(Plan, i - 1) + j + 1
    IN  RAdd(Analytics.cum_times[n + 1],
             <<0 - Analytics.cum_times[n][1], Analytics.cum_times[n][2]>>)

\* the pit stop folded into the last lap of every stint but the first
FoldedPit(i, j) == IF i > 1 /\ j = Plan[i][2] - 1 THEN R(pit_time) ELSE R(0)

Cool == RLeq(call.weather.track_temp, R(30))

\* C14: at a track temperature of 30 or less the temperature factor is 1,
\* the analytics are those of the same call at 30 degrees, and the lap at
\* position j (from 0) of a stint takes base + j * slope of the stint's
\* compound, with j starting at 0 in every stint.
C14_NoRewardBelowThirty ==
    ((Succeeded("simulate") \/ Succeeded("optimize")) /\ Cool) =>
        /\ TempFactor(call.weather) = R(1)
        /\ \A i \in 1..Len(Plan) : \A p \in {ParamsOf(i)} : \A j \in 0..(Plan[i][2] - 1) :
            RecordedLap(i, j) = RAdd(RAdd(p.base, RMul(R(j), p.slope)), FoldedPit(i, j))
        /\ call.op = "simulate" =>
            \A at30 \in {simulate_strategy(deg_models, call.track, call.team,
                                           [call.weather EXCEPT !.track_temp = R(30)],
                                           call.strategy)} :
                result.analytics = at30.analytics

\* three dry stints simulated at 20 degrees
C14_CoolThreeStints ==
    /\ Succeeded("simulate")
    /\ call.weather.track_temp = R(20)
    /\ ~IsWet(call.weather)
    /\ Len(call.strategy) = 3
    /\ RLess(R(0), ParamsOf(2).slope)

\* the fetch or the parsing of the response failed, or no key is configured
FetchFailed ==
    \/ ~KeyUsable(OW_API_KEY)
    \/ call.response.kind = "raises"
    \/ call.response.cod # 200
    \/ ~call.response.has_main

\* C15: for a track with coordinates get_weather returns a record of
\* track_temp and rain_prob and raises nothing; without a usable key, on a
\* response code other than 200, and on any exception while fetching or
\* parsing, the record is the neutral default (30.0, 0.1).
C15_GetWeatherNeverRaises ==
    (Returned("get_weather") /\ call.track \in TRACK_COORDS) =>
        /\ result.status = "ok"
        /\ DOMAIN result.weather = {"track_temp", "rain_prob"}
        /\ FetchFailed => result.weather = DefaultWeather

\* a response of code 200 without 'main': the KeyError of line 46 is caught
C15_ParseFailureDefaults ==
    /\ Returned("get_weather")
    /\ KeyUsable(OW_API_KEY)
    /\ call.response.kind = "json"
    /\ call.response.cod = 200
    /\ ~call.response.has_main
    /\ result = Fetched(DefaultWeather)

\* C16: optimize_strategy for a track outside the registry raises, with no
\* weather fetched, no candidate simulated, no fallback plan and no result.
C16_UnknownTrackRaisesFirst ==
    (Returned("optimize") /\ ~Registered(call.track)) =>
        /\ result.status = "KeyError"
        /\ ~result.consulted
        /\ result.attempts = <<>>
        /\ ~result.fallback
        /\ "best_strat" \notin DOMAIN result

\* an unregistered track optimized with a usable weather key and no weather given
C16_UnknownTrackWithKey ==
    /\ Returned("optimize")
    /\ call.track = "Nordschleife"
    /\ KeyUsable(OW_API_KEY)
    /\ call.response.kind = "json"
    /\ result.status = "KeyError"

\* the texts explain_strategy returns when it could not explain
ErrorTexts == {"Groq SDK not installed", "Groq initialization error", "LLM Error"}

\* C17: explain_strategy raises nothing; without the SDK, with a client that
\* failed to initialise, and when the API call throws, it returns an error
\* text; the plan, total time, pit laps and analytics optimize_strategy
\* returned, and the table, are what they were before it.
C17_ExplainNeverRaises ==
    [][pc' = "explained" =>
        /\ result'.explanation.status = "ok"
        /\ (explain_def # "client" \/ call'.completion # "content")
                => result'.explanation.text \in ErrorTexts
        /\ \A f \in DOMAIN result : result'[f] = result[f]
        /\ deg_models' = deg_models]_vars

\* the API call threw and the error text came back
C17_ApiCallThrew ==
    /\ pc = "explained"
    /\ explain_def = "client"
    /\ call.completion = "raises"
    /\ result.explanation = Explained("ok", "LLM Error")
    /\ Len(result.best_strat) = 2

\* C18: the cumulative time recorded for the last lap before each pit stop
\* holds the lap times up to it and one pit stop for that stop and for every
\* stop before it.
C18_PitChargedAtPitLap ==
    (Succeeded("simulate") \/ Succeeded("optimize")) =>
        \A k \in 1..(Len(Plan) - 1) :
            Analytics.cum_times[SumLaps(Plan, k) + 1] =
                RAdd(RSum(SubSeq(Analytics.stint_times, 1, k)), R(k * pit_time))

\* C19: optimize_strategy attempts all six candidates in menu order whatever
\* fails on the way, and simulates the MEDIUM fallback exactly when none of
\* them simulated successfully.
C19_EveryCandidateAttempted ==
    (Returned("optimize") /\ Registered(call.track)) =>
        /\ Len(result.attempts) = 6
        /\ \A k \in 1..Len(result.attempts) :
            result.attempts[k].strat = Candidates(track_laps_dict[call.track])[k]
        /\ result.fallback <=> Simulated = {}

\* a candidate failed and a later one simulated successfully
C19_SuccessAfterFailure ==
    /\ Succeeded("optimize")
    /\ ~result.fallback
    /\ \E j, k \in 1..Len(result.attempts) :
        /\ j < k
        /\ result.attempts[j].status = "KeyError"
        /\ result.attempts[k].status = "ok"

\* every (track, team) pair of a table that has an entry
AllPairs(dm) == {<<e[1], e[2]>> : e \in Entries(dm)}

\* the call was for a registered track the table does not have
TrackAbsent ==
    /\ Returned("simulate")
    /\ result.status # "ValueError"
    /\ Registered(call.track)
    /\ call.track \notin DOMAIN deg_models

\* C20: for a track the table does not have, simulate_strategy computes with
\* the per-compound means over every (track, team) pair of the whole table
\* that has the compound, held under the team 'Other' alone, and returns the
\* same for every team asked for.
C20_TrackFallbackIsMeanOfTable ==
    TrackAbsent =>
        /\ DOMAIN TrackData(deg_models, call.track) = {"Other"}
        /\ IsMeanOver(TrackData(deg_models, call.track)["Other"], deg_models,
                      AllPairs(deg_models))
        /\ \A team \in Teams :
            \A sim \in {simulate_strategy(deg_models, call.track, team, call.weather,
                                           call.strategy)} :
                /\ result.status = sim.status
                /\ result.analytics = sim.analytics

\* Belgium simulated for McLaren over a table of two tracks with unequal
\* numbers of teams
C20_AbsentTrackTwoTracks ==
    /\ TrackAbsent
    /\ result.status = "ok"
    /\ call.team = "McLaren"
    /\ call.track = "Belgium"
    /\ DOMAIN loaded = {"Monza", "Silverstone"}
    /\ Cardinality(DOMAIN loaded["Monza"]) # Cardinality(DOMAIN loaded["Silverstone"])

\* the rain probability of the call is above the threshold of line 69
Raining == RLess(<<3, 10>>, call.weather.rain_prob)

\* 0 + 1 + ... + (n - 1)
Triangle(n) == (n * (n - 1)) \div 2

\* the wet parameters lines 115-116 derive from the entries of a team
WetParams(team_data) ==
    IF "HARD" \in DOMAIN team_data
    THEN [base |-> RAdd(team_data["HARD"].base, R(3)),
          slope |-> RMul(team_data["HARD"].slope, <<3, 2>>)]
    ELSE [base |-> R(95), slope |-> <<3, 100>>]

\* stint i of the plan was simulated with base and slope p at the
\* temperature factor tf: its wear is slope * (0 + ... + (L-1)), its time is
\* L * base + tf * slope * (0 + ... + (L-1)), its average lap is time / L
StintComputedWith(i, p, tf) ==
    /\ Analytics.deg_penalties[i] = RMul(p.slope, R(Triangle(Plan[i][2])))
    /\ Analytics.stint_times[i] =
          RAdd(RMul(R(Plan[i][2]), p.base),
               RMul(RMul(p.slope, tf), R(Triangle(Plan[i][2]))))
    /\ Analytics.avg_lap_times[i] = RDivInt(Analytics.stint_times[i], Plan[i][2])

\* C21: in a wet simulation every stint, whatever compound the plan names
\* for it, is computed with base = base_hard + 3 and slope = slope_hard * 1.5
\* of the HARD entry resolved for the track and team, and with base = 95 and
\* slope = 0.03 when no HARD entry resolves.
C21_WetParamsFromHard ==
    ((Succeeded("simulate") \/ Succeeded("optimize")) /\ Raining) =>
        \A p \in {WetParams(TeamData)}, tf \in {TempFactor(call.weather)} :
            \A i \in 1..Len(Plan) : StintComputedWith(i, p, tf)

\* a wet plan of SOFT, MEDIUM and HARD stints simulated for a team whose
\* three entries differ
C21_WetThreeCompounds ==
    /\ Succeeded("simulate")
    /\ Raining
    /\ Len(call.strategy) = 3
    /\ {call.strategy[i][1] : i \in 1..3} = DryCompounds
    /\ DryCompounds \subseteq DOMAIN TeamData
    /\ TeamData["SOFT"] # TeamData["HARD"]
    /\ TeamData["MEDIUM"] # TeamData["HARD"]

\* the entry of the compound the plan names for stint i, as lines 114-119
\* resolve it in a dry race
OwnParams(team_data, i) ==
    IF Plan[i][1] = "INTERMEDIATE" THEN WetParams(team_data) ELSE team_data[Plan[i][1]]

\* the stint times of the analytics and one pit stop between stints
StintsAndPits ==
    RAdd(RSum(Analytics.stint_times), R((Len(Analytics.stint_times) - 1) * pit_time))

\* C22: at a rain probability above 0.3 every stint is computed as
\* INTERMEDIATE and the total is multiplied by 1.1; at exactly 0.3 and below
\* every stint is computed with the compound the plan names and the total
\* carries no multiplier.
C22_WetOnlyAboveThreshold ==
    (Succeeded("simulate") \/ Succeeded("optimize")) =>
        \A td \in {TeamData}, tf \in {TempFactor(call.weather)} :
            IF RLess(<<3, 10>>, call.weather.rain_prob)
            THEN /\ \A i \in 1..Len(Plan) : StintComputedWith(i, WetParams(td), tf)
                 /\ Analytics.total_time = RMul(StintsAndPits, <<11, 10>>)
            ELSE /\ \A i \in 1..Len(Plan) :
                    /\ Plan[i][1] \in DOMAIN td \cup {"INTERMEDIATE"}
                    /\ StintComputedWith(i, OwnParams(td, i), tf)
                 /\ Analytics.total_time = StintsAndPits

\* a plan starting on SOFT simulated at a rain probability of exactly 0.3,
\* for a team whose SOFT entry is not what INTERMEDIATE would use
C22_AtThresholdDry ==
    /\ Succeeded("simulate")
    /\ call.weather.rain_prob = <<3, 10>>
    /\ Len(call.strategy) = 2
    /\ call.strategy[1][1] = "SOFT"
    /\ TeamData["SOFT"] # WetParams(TeamData)
    /\ Analytics.total_time = StintsAndPits

\* the base and slope stint i was simulated with: those of INTERMEDIATE in
\* the rain, those of the compound the plan names otherwise
SimulatedParams(team_data, i) ==
    IF Raining THEN WetParams(team_data) ELSE OwnParams(team_data, i)

\* what stint i takes at 30 degrees and below: L * base + slope * (0 + ... + (L-1))
BaselineStintTime(p, i) ==
    RAdd(RMul(R(Plan[i][2]), p.base), RMul(p.slope, R(Triangle(Plan[i][2]))))

Hot == RLess(R(30), call.weather.track_temp)

\* C23 as stated: over a table whose entries all have a non-negative base
\* and slope, the penalty of a stint of L laps is slope * (0 + ... + (L-1)) at
\* the unadjusted slope of the compound simulated, whatever the temperature,
\* and above 30 degrees the stint takes longer than it does at 30 degrees.
C23_PenaltyFixedTimeGrows ==
    ((Succeeded("simulate") \/ Succeeded("optimize")) /\ Hot /\ NonNegativeEntries(loaded)) =>
        \A td \in {TeamData} : \A i \in 1..Len(Plan) : \A p \in {SimulatedParams(td, i)} :
            /\ Analytics.deg_penalties[i] = RMul(p.slope, R(Triangle(Plan[i][2])))
            /\ RLess(BaselineStintTime(p, i), Analytics.stint_times[i])

\* C23: the penalty of a stint of L laps is slope * (0 + ... + (L-1)) at the
\* unadjusted slope of the compound simulated, whatever the temperature; the
\* stint time is L * base + tempFactor * penalty, so above 30 degrees the
\* stint takes longer than at 30 degrees exactly when its penalty is
\* positive, as long when the penalty is zero, and less long when the
\* penalty is negative.
C23_PenaltyFixedTimeFollowsWear ==
    (Succeeded("simulate") \/ Succeeded("optimize")) =>
        \A td \in {TeamData}, tf \in {TempFactor(call.weather)} :
            \A i \in 1..Len(Plan) : \A p \in {SimulatedParams(td, i)} :
                /\ Analytics.deg_penalties[i] = RMul(p.slope, R(Triangle(Plan[i][2])))
                /\ Analytics.stint_times[i] =
                      RAdd(RMul(R(Plan[i][2]), p.base), RMul(tf, Analytics.deg_penalties[i]))
                /\ Hot => /\ RLess(BaselineStintTime(p, i), Analytics.stint_times[i])
                                <=> RLess(R(0), Analytics.deg_penalties[i])
                          /\ RLess(Analytics.stint_times[i], BaselineStintTime(p, i))
                                <=> RLess(Analytics.deg_penalties[i], R(0))

\* two stints with wear simulated at 40 degrees: the penalty is the one at
\* the unadjusted slope and the first stint takes longer than at 30 degrees
C23_HotStintsWithWear ==
    /\ Succeeded("simulate")
    /\ call.weather.track_temp = R(40)
    /\ Len(call.strategy) = 2
    /\ RLess(R(0), Analytics.deg_penalties[1])
    /\ RLess(BaselineStintTime(SimulatedParams(TeamData, 1), 1), Analytics.stint_times[1])

\* C24: the stint_times, avg_lap_times and deg_penalties of a successful
\* simulation of n stints have n entries each, entry i being that of stint i
\* of the plan; total_time is the sum of the stint times plus n - 1 pit
\* stops, times 1.1 in the rain; a single stint carries no pit stop.
C24_TotalIsStintsPlusPits ==
    (Succeeded("simulate") \/ Succeeded("optimize")) =>
        /\ Len(Analytics.stint_times) = Len(Plan)
        /\ Len(Analytics.avg_lap_times) = Len(Plan)
        /\ Len(Analytics.deg_penalties) = Len(Plan)
        /\ \A td \in {TeamData}, tf \in {TempFactor(call.weather)} :
            \A i \in 1..Len(Plan) : StintComputedWith(i, SimulatedParams(td, i), tf)
        /\ Analytics.total_time =
              RMul(RAdd(RSum(Analytics.stint_times), R((Len(Plan) - 1) * pit_time)),
                   IF Raining THEN <<11, 10>> ELSE R(1))
        /\ Len(Plan) = 1 =>
              Analytics.total_time =
                  RMul(Analytics.stint_times[1], IF Raining THEN <<11, 10>> ELSE R(1))

\* three dry stints of unequal length: two pit stops in the total
C24_ThreeStintsTwoPits ==
    /\ Succeeded("simulate")
    /\ ~Raining
    /\ Len(call.strategy) = 3
    /\ call.strategy[1][2] # call.strategy[3][2]
    /\ Analytics.stint_times[1] # Analytics.stint_times[3]
    /\ Analytics.total_time = RAdd(RSum(Analytics.stint_times), R(2 * pit_time))

\* the positions of the calls of get_weather among the calls the call made
Fetches == {k \in 1..Len(result.events) : result.events[k] = "get_weather"}

C26_OutputsConsistent ==
    Succeeded("optimize") =>
        /\ SumLaps(result.best_strat, Len(result.best_strat)) = track_laps_dict[call.track]
        /\ result.best_time = result.best_analytics.total_time
        /\ \A sim \in {simulate_strategy(deg_models, call.track, call.team, call.weather,
                                          result.best_strat)} :
            /\ sim.status = "ok"
            /\ sim.analytics = result.best_analytics

\* the plan returned is not the first candidate that simulated: an earlier
\* one was slower
C26_LaterCandidateReturned ==
    /\ Succeeded("optimize")
    /\ \E j, k \in Simulated :
        /\ j < k
        /\ result.best_strat = result.attempts[k].strat
        /\ RLess(result.best_time, result.attempts[j].time)

\* C27: a call of simulate_strategy that rejects the plan for its lap sum
\* leaves the degradation table, and everything else the module holds, as
\* it was before the call, and returns no analytics.
C27_RejectionLeavesStateAlone ==
    [][(pc = "idle" /\ pc' = "returned" /\ call'.op = "simulate"
            /\ result'.status = "ValueError") =>
        /\ deg_models' = deg_models
        /\ result'.analytics = <<>>
        /\ UNCHANGED <<loaded, OW_API_KEY, explain_def>>]_vars

\* a plan one lap short rejected for a team the track's table does not have:
\* a successful call would have stored the team's fallback entries
C27_RejectedForAbsentTeam ==
    /\ Returned("simulate")
    /\ result.status = "ValueError"
    /\ call.track \in DOMAIN deg_models
    /\ call.team \notin DOMAIN deg_models[call.track]
    /\ SumLaps(call.strategy, Len(call.strategy)) = track_laps_dict[call.track] - 1

\* a table with no track in it
EmptyTable == <<>>

\* the plan of the call has positive lap counts that sum to the track's laps
ValidPlan ==
    /\ Registered(call.track)
    /\ AllPositive(call.strategy)
    /\ SumLaps(call.strategy, Len(call.strategy)) = track_laps_dict[call.track]

\* an outcome of optimize_strategy that is one of the six candidates, all
\* six having simulated, and not the fallback plan
MenuCandidateChosen(out, track) ==
    /\ out.status = "ok"
    /\ ~out.fallback
    /\ \A k \in 1..6 : out.attempts[k].status = "ok"
    /\ \E k \in 1..6 : out.best_strat = Candidates(track_laps_dict[track])[k]

\* C28: at a rain probability above 0.3 simulate_strategy succeeds for every
\* plan of positive lap counts that sum to the track's laps, over every table
\* and over the table with nothing in it; optimize_strategy then returns one
\* of the six candidates, all six having simulated, and never the MEDIUM
\* fallback.
C28_WetAlwaysSimulates ==
    /\ (Returned("simulate") /\ Raining /\ ValidPlan) =>
          /\ result.status = "ok"
          /\ simulate_strategy(EmptyTable, call.track, call.team, call.weather,
                               call.strategy).status = "ok"
    /\ (Returned("optimize") /\ Raining /\ Registered(call.track)) =>
          /\ MenuCandidateChosen(result, call.track)
          /\ MenuCandidateChosen(optimize_strategy(EmptyTable, call.track, call.team,
                                                   call.weather), call.track)

\* a wet race optimized for a team that has no compound at all, over a
\* table without a single entry: a candidate of the menu is returned
C28_WetOverEntrylessTable ==
    /\ Succeeded("optimize")
    /\ Raining
    /\ Entries(loaded) = {}
    /\ DOMAIN TeamData = {}
    /\ ~result.fallback
    /\ Len(result.best_strat) = 2

====
